---------------------------- MODULE Spec2Model ----------------------------
(* EDLParserApp (src/EDLParser.py): the record extractor parse_edl_file,   *)
(* the table refresh load_edl_data and the folder materializer            *)
(* generate_folders, as a state machine over the window's fields, the EDL *)
(* files on disk and the directory tree under the working directory.      *)
(*                                                                         *)
(* A Python str is a sequence of one-character strings; list and str      *)
(* indices of the source are 0-based, sequences here are 1-based, so      *)
(* parts[4] of the source is parts[MovTokenIndex + 1] here.               *)
EXTENDS Naturals, Sequences, FiniteSets, TLC

VARIABLES disk, fs, clip_data, table_widget, text_edit, pc, pending, raised, running

vars == <<disk, fs, clip_data, table_widget, text_edit, pc, pending, raised, running>>

---------------------------------------------------------------------------
(* Python str operations used by the source *)

Whitespace == {" ", "\n", "\t"}

Digits == {"0", "1", "2", "3", "4", "5", "6", "7", "8", "9"}

Signs == {"+", "-"}

RECURSIVE LStrip(_)
LStrip(s) ==
    IF s # <<>> /\ Head(s) \in Whitespace THEN LStrip(Tail(s)) ELSE s

RECURSIVE RStrip(_)
RStrip(s) ==
    IF s # <<>> /\ s[Len(s)] \in Whitespace
    THEN RStrip(SubSeq(s, 1, Len(s) - 1))
    ELSE s

\* str.strip()
Strip(s) == RStrip(LStrip(s))

\* str.startswith(p)
StartsWith(s, p) == Len(s) >= Len(p) /\ SubSeq(s, 1, Len(p)) = p

\* str.endswith(p)
EndsWith(s, p) ==
    Len(s) >= Len(p) /\ SubSeq(s, Len(s) - Len(p) + 1, Len(s)) = p

\* str.find(sep) + 1: position of the first occurrence of sep, 0 when absent
Find(s, sep) ==
    LET hits == {i \in 1..(Len(s) - Len(sep) + 1) :
                    SubSeq(s, i, i + Len(sep) - 1) = sep}
    IN  IF hits = {} THEN 0 ELSE CHOOSE i \in hits : \A j \in hits : i <= j

\* str.split(sep): the pieces between the non-overlapping occurrences of
\* sep, left to right; a string without sep is its own single piece
RECURSIVE Split(_, _)
Split(s, sep) ==
    LET i == Find(s, sep)
    IN  IF i = 0
        THEN <<s>>
        ELSE <<SubSeq(s, 1, i - 1)>> \o Split(SubSeq(s, i + Len(sep), Len(s)), sep)

RECURSIVE Zeros(_)
Zeros(n) == IF n = 0 THEN <<>> ELSE <<"0">> \o Zeros(n - 1)

\* zfill left out: the string as it is
ZFillNone(s, width) == s

\* str.zfill(width): zeros on the left up to width, after a leading sign;
\* a string already that long is returned as it is
ZFill(s, width) ==
    IF Len(s) >= width THEN s
    ELSE IF s # <<>> /\ Head(s) \in Signs
         THEN <<Head(s)>> \o Zeros(width - Len(s)) \o Tail(s)
         ELSE Zeros(width - Len(s)) \o s

AllDigits(s) == \A i \in 1..Len(s) : s[i] \in Digits

\* s[a:b] of the source (0-based, b exclusive)
Slice(s, a, b) == SubSeq(s, a + 1, IF b < Len(s) THEN b ELSE Len(s))

\* s[a:] of the source
SliceFrom(s, a) == SubSeq(s, a + 1, Len(s))

---------------------------------------------------------------------------
(* Literals of the source *)

REEL == <<"R", "E", "E", "L">>

CLIP == <<"C", "L", "I", "P">>

MOV == <<".", "m", "o", "v">>

WAV == <<".", "w", "a", "v">>

EDL == <<".", "e", "d", "l">>

Underscore == <<"_">>

Dash == <<"-">>

Dot == <<".">>

LetterE == <<"e">>

\* parts[0][0:3]
SeasonLen == 3

\* len(episode) <= 3
EpisodeMaxRaw == 3

\* e_number.zfill(3)
EpisodeWidth == 3

\* shot.zfill(4)
ShotWidth == 4

\* parts[4] of a .mov clip
MovTokenIndex == 4

\* parts[1] of a .wav clip
WavTokenIndex == 1

---------------------------------------------------------------------------
(* parse_edl_file: what the loop body does with one line *)

\* the body of pattern r'^s\d{2}e\d{2,3}$' between ^ and $
PatternBody(t) ==
    /\ Len(t) \in {6, 7}
    /\ t[1] = "s"
    /\ t[2] \in Digits /\ t[3] \in Digits
    /\ t[4] = "e"
    /\ \A i \in 5..Len(t) : t[i] \in Digits

\* the pattern without its closing $: a match of the first 6 or 7 characters
ReMatchUnanchored(t) ==
    \/ Len(t) >= 6 /\ PatternBody(SubSeq(t, 1, 6))
    \/ Len(t) >= 7 /\ PatternBody(SubSeq(t, 1, 7))

\* re.match(pattern, t): $ matches at the end and before a final newline
ReMatch(t) ==
    \/ PatternBody(t)
    \/ /\ t # <<>> /\ t[Len(t)] = "\n"
       /\ PatternBody(SubSeq(t, 1, Len(t) - 1))

\* line.strip().startswith("REEL")
IsReelLine(line) == StartsWith(Strip(line), REEL)

\* line.split("CLIP")[1] exists
HasClip(line) == Len(Split(line, CLIP)) >= 2

\* clip_name = line.split("CLIP")[1].strip()
ClipName(line) == Strip(Split(line, CLIP)[2])

\* parts = clip_name.split("_")
Parts(clip_name) == Split(clip_name, Underscore)

\* season = parts[0][0:3]
Season(parts) == Slice(parts[1], 0, SeasonLen)

\* episode = parts[0][3:]
EpisodeRaw(parts) == SliceFrom(parts[1], SeasonLen)

\* the padding test with < in the place of <=
NormalizeEpisodeShort(episode) ==
    IF Len(episode) < EpisodeMaxRaw
    THEN LetterE \o ZFill(Split(episode, LetterE)[2], EpisodeWidth)
    ELSE episode

\* if len(episode) <= 3: episode = "e" + episode.split('e')[1].zfill(3)
NormalizeEpisode(episode) ==
    IF Len(episode) <= EpisodeMaxRaw
    THEN LetterE \o ZFill(Split(episode, LetterE)[2], EpisodeWidth)
    ELSE episode

LastPart(parts) == parts[Len(parts)]

IsMov(parts) == EndsWith(LastPart(parts), MOV)

IsWav(parts) == EndsWith(LastPart(parts), WAV)

\* parts[4].split("-")[1] of a .mov clip raises IndexError
MovRaises(parts) ==
    \/ Len(parts) < MovTokenIndex + 1
    \/ Len(Split(parts[MovTokenIndex + 1], Dash)) < 2

\* parts[1] of a .wav clip raises IndexError
WavRaises(parts) == Len(parts) < WavTokenIndex + 1

\* the .mov shot without the split on "."
MovShotNoDot(parts, episode) ==
    episode \o <<"s">> \o
    ZFill(Split(parts[MovTokenIndex + 1], Dash)[2], ShotWidth)

\* shot = parts[4].split("-")[1]; shot.split(".")[0]; zfill(4); f"{episode}s{shot}"
MovShot(parts, episode) ==
    episode \o <<"s">> \o
    ZFill(Split(Split(parts[MovTokenIndex + 1], Dash)[2], Dot)[1], ShotWidth)

\* shot = parts[1].split("-")[0]; zfill(4); f"{episode}s{shot}"
WavShot(parts, episode) ==
    episode \o <<"s">> \o
    ZFill(Split(parts[WavTokenIndex + 1], Dash)[1], ShotWidth)

\* the two extension tests run one after the other; the .wav one is last
Shot(parts, episode) ==
    LET after_mov == IF IsMov(parts) THEN MovShot(parts, episode) ELSE <<>>
    IN  IF IsWav(parts) THEN WavShot(parts, episode) ELSE after_mov

ShotRaises(parts) ==
    \/ IsMov(parts) /\ MovRaises(parts)
    \/ IsWav(parts) /\ WavRaises(parts)

\* the tuple (clip_name, shot, episode, season) appended to clip_data
Record(line) ==
    LET clip_name == ClipName(line)
        parts == Parts(clip_name)
        episode == NormalizeEpisode(EpisodeRaw(parts))
    IN  <<clip_name, Shot(parts, episode), episode, Season(parts)>>

\* an append that leaves out a record already in the list
AppendRecordOnce(data, record) ==
    IF \E i \in 1..Len(data) : data[i] = record THEN data ELSE Append(data, record)

\* self.clip_data.append(record)
AppendRecord(data, record) == Append(data, record)

\* one iteration of "for line in file": "skip" appends nothing, "record"
\* appends Record(line), "IndexError" leaves the loop with the exception
LineOutcome(line) ==
    IF ~IsReelLine(line) THEN "skip"
    ELSE IF ~HasClip(line) THEN "IndexError"
    ELSE IF ~ReMatch(Parts(ClipName(line))[1]) THEN "skip"
    ELSE IF ShotRaises(Parts(ClipName(line))) THEN "IndexError"
    ELSE "record"

\* what the whole loop appends for the lines of one file: the records of
\* its lines in order, up to the first line that raises
RECURSIVE ParsedRecords(_)
ParsedRecords(lines) ==
    IF lines = <<>> THEN <<>>
    ELSE LET outcome == LineOutcome(Head(lines))
         IN  IF outcome = "IndexError" THEN <<>>
             ELSE IF outcome = "record"
             THEN <<Record(Head(lines))>> \o ParsedRecords(Tail(lines))
             ELSE ParsedRecords(Tail(lines))

---------------------------------------------------------------------------
(* The working directory: directories, regular files and directories    *)
(* that refuse new entries, each a path of names below os.getcwd()      *)

Parent(p) == SubSeq(p, 1, Len(p) - 1)

\* os.path.join(dir, ''): the path with a trailing separator, kept as a
\* last empty name
Join(dir, name) == Append(dir, name)

Trailing(p) == p # <<>> /\ p[Len(p)] = <<>>

Norm(p) == IF Trailing(p) THEN Parent(p) ELSE p

IsDir(tree, p) == p = <<>> \/ p \in tree.dirs

\* os.path.exists(p): a path with a trailing separator exists only as a
\* directory
PathExists(tree, p) ==
    IF Trailing(p) THEN IsDir(tree, Norm(p))
    ELSE IsDir(tree, p) \/ p \in tree.files

\* os.mkdir(p): OSError when p exists, when its parent is no directory or
\* when the parent refuses the entry
Mkdir(tree, p) ==
    LET q == Norm(p)
    IN  IF \/ IsDir(tree, q) \/ q \in tree.files
           \/ ~IsDir(tree, Parent(q))
           \/ Parent(q) \in tree.readonly
        THEN [tree |-> tree, err |-> TRUE]
        ELSE [tree |-> [tree EXCEPT !.dirs = @ \cup {q}], err |-> FALSE]

\* os.makedirs(p): the missing parents first, then p itself
RECURSIVE MakeDirs(_, _)
MakeDirs(tree, p) ==
    LET q == Norm(p)
    IN  IF q # <<>> /\ ~PathExists(tree, Parent(q))
        THEN LET up == MakeDirs(tree, Parent(q))
             IN  IF up.err THEN up ELSE Mkdir(up.tree, p)
        ELSE Mkdir(tree, p)

\* os.makedirs without the os.path.exists test before it
EnsureDirUnchecked(tree, d) == MakeDirs(tree, d)

\* if not os.path.exists(d): os.makedirs(d)
EnsureDir(tree, d) ==
    IF PathExists(tree, d) THEN [tree |-> tree, err |-> FALSE]
    ELSE MakeDirs(tree, d)

\* the body of the loop of generate_folders for one file_info: season,
\* then episode, then shot; an OSError leaves the later ones undone
RecordFolders(tree, file_info) ==
    LET shot_folder == file_info[2]
        episode_folder == file_info[3]
        season_folder == file_info[4]
        season_directory == Join(<<>>, season_folder)
        episode_directory == Join(season_directory, episode_folder)
        shot_directory == Join(episode_directory, shot_folder)
        a == EnsureDir(tree, season_directory)
        b == EnsureDir(a.tree, episode_directory)
    IN  IF a.err THEN a
        ELSE IF b.err THEN b
        ELSE EnsureDir(b.tree, shot_directory)

\* for file_info in self.clip_data: the first OSError ends the loop
RECURSIVE Folders(_, _)
Folders(tree, records) ==
    IF records = <<>> THEN [tree |-> tree, err |-> FALSE]
    ELSE LET r == RecordFolders(tree, Head(records))
         IN  IF r.err THEN r ELSE Folders(r.tree, Tail(records))

---------------------------------------------------------------------------
(* Inputs: EDL lines, the files holding them, the trees found on disk *)

\* what a line starts with
Prefixes ==
    { <<"R", "E", "E", "L", " ", "0", "0", "1", " ">>,
      <<" ", " ", "R", "E", "E", "L", " ">>,
      <<"T", "I", "T", "L", "E", " ">>,
      <<"X", "R", "E", "E", "L", " ">> }

\* the CLIP marker, or none
Markers ==
    { <<"C", "L", "I", "P", " ">>,
      <<"C", "L", "I", "P", "\t">>,
      <<>> }

\* the first underscore token of the clip name
FirstTokens ==
    { <<"s", "0", "1", "e", "0", "5">>,
      <<"s", "0", "1", "e", "0", "0", "5">>,
      <<"s", "0", "1", "e", "2", "3">>,
      <<"s", "1", "2", "e", "1", "2", "3">>,
      <<"s", "0", "1", "e", "5">>,
      <<"s", "1", "e", "0", "5">>,
      <<"S", "0", "1", "E", "0", "5">>,
      <<"s", "0", "1", "e", "1", "2", "3", "4">> }

\* the rest of the clip name
Rests ==
    { <<"_", "s", "h", "o", "w", "_", "e", "p", "_", "d", "e", "s", "c", "_", "u", "n", "u", "s", "e", "d", "-", "0", "0", "0", "7", ".", "m", "o", "v">>,
      <<"_", "0", "0", "3", "3", "-", "x", ".", "w", "a", "v">>,
      <<"_", "a", "-", "1", ".", "m", "o", "v">>,
      <<>>,
      <<"_", "f", "o", "o">>,
      <<"_", "1", "2", "3", "4", "5", "-", "x", ".", "w", "a", "v">>,
      <<"_", "x", ".", "w", "a", "v">>,
      <<"_", "C", "L", "I", "P", "_", "7", "-", "x", ".", "w", "a", "v">>,
      <<"_", "a", "_", "b", "_", "c", "_", "d", "-", "4", "2", ".", "x", ".", "m", "o", "v">>,
      <<"_", "a", "_", "b", "_", "c", "_", "d", ".", "m", "o", "v">>,
      <<"_", "+", "7", "-", "x", ".", "w", "a", "v">> }

StdPrefix == <<"R", "E", "E", "L", " ", "0", "0", "1", " ">>

StdMarker == <<"C", "L", "I", "P", " ">>

StdToken == <<"s", "0", "1", "e", "0", "5">>

StdRest == <<"_", "0", "0", "3", "3", "-", "x", ".", "w", "a", "v">>

Newline == <<"\n">>

\* every first token with every rest after the usual prefix and marker,
\* every prefix and marker before the usual clip name, and a last line
\* without its newline
LineSet ==
    { StdPrefix \o StdMarker \o t \o r \o Newline : t \in FirstTokens, r \in Rests }
    \cup { p \o m \o StdToken \o StdRest \o Newline : p \in Prefixes, m \in Markers }
    \cup { StdPrefix \o StdMarker \o StdToken \o StdRest }

MovLine == <<"R", "E", "E", "L", " ", "0", "0", "1", " ", "C", "L", "I", "P", " ", "s", "0", "1", "e", "0", "0", "5", "_", "s", "h", "o", "w", "_", "e", "p", "_", "d", "e", "s", "c", "_", "u", "n", "u", "s", "e", "d", "-", "0", "0", "0", "7", ".", "m", "o", "v", "\n">>

WavLine == <<"R", "E", "E", "L", " ", "0", "0", "2", " ", "C", "L", "I", "P", " ", "s", "0", "2", "e", "1", "2", "_", "0", "0", "3", "3", "-", "x", ".", "w", "a", "v", "\n">>

TitleLine == <<"T", "I", "T", "L", "E", ":", " ", "d", "e", "m", "o", "\n">>

NoClipLine == <<"R", "E", "E", "L", " ", "0", "0", "3", " ", "A", "X", "\n">>

ShortMovLine == <<"R", "E", "E", "L", " ", "0", "0", "4", " ", "C", "L", "I", "P", " ", "s", "0", "1", "e", "0", "5", "_", "a", "-", "1", ".", "m", "o", "v", "\n">>

BadTokenLine == <<"R", "E", "E", "L", " ", "0", "0", "6", " ", "C", "L", "I", "P", " ", "S", "0", "1", "E", "0", "5", "_", "0", "0", "0", "1", "-", "x", ".", "w", "a", "v", "\n">>

PlainLine == <<"R", "E", "E", "L", " ", "0", "0", "5", " ", "C", "L", "I", "P", " ", "s", "0", "3", "e", "1", "2", "3", "_", "f", "o", "o", "\n">>

AEdl == <<"a", ".", "e", "d", "l">>

BEdl == <<"b", ".", "e", "d", "l">>

CEdl == <<"c", ".", "e", "d", "l">>

DEdl == <<"d", ".", "e", "d", "l">>

EEdl == <<"e", ".", "e", "d", "l">>

XEdl == <<"x", ".", "e", "d", "l">>

NotesTxt == <<"n", "o", "t", "e", "s", ".", "t", "x", "t">>

GoneEdl == <<"g", "o", "n", "e", ".", "e", "d", "l">>

Cancelled == <<>>

\* a project directory with several EDL files
FixtureDisk ==
    (AEdl :> <<MovLine, WavLine>>)
    @@ (BEdl :> <<TitleLine, NoClipLine, WavLine>>)
    @@ (CEdl :> <<ShortMovLine, WavLine>>)
    @@ (DEdl :> <<WavLine, TitleLine, WavLine>>)
    @@ (EEdl :> <<BadTokenLine, PlainLine>>)
    @@ (NotesTxt :> <<MovLine>>)

\* a directory with one EDL file of one line
LineDisk(line) == (XEdl :> <<line>>) @@ (NotesTxt :> <<line>>)

Disks == {FixtureDisk} \cup {LineDisk(line) : line \in LineSet}

S01 == <<"s", "0", "1">>

E005 == <<"e", "0", "0", "5">>

OldShot == <<"e", "0", "0", "5", "s", "0", "0", "0", "1">>

NoTree == [dirs |-> {}, files |-> {}, readonly |-> {}]

\* base/s01/e005 with a shot folder already in it
SeasonTree == [NoTree EXCEPT !.dirs = {<<S01>>, <<S01, E005>>, <<S01, E005, OldShot>>}]

\* a regular file named s01 where the season folder belongs
BlockedTree == [NoTree EXCEPT !.files = {<<S01>>}]

\* a season folder that refuses new entries
ReadOnlyTree == [NoTree EXCEPT !.dirs = {<<S01>>}, !.readonly = {<<S01>>}]

Trees == {NoTree, SeasonTree, BlockedTree, ReadOnlyTree}

\* what the file dialog can return: a file of the directory, a name whose
\* file is gone, or nothing (the dialog was cancelled)
DialogChoices(d) == DOMAIN d \cup {GoneEdl, Cancelled}

\* the longest record list the model follows
MaxRecords == 4

---------------------------------------------------------------------------
(* The window *)

\* __init__: an empty clip_data, an empty table and address bar; the
\* directory and the tree are whatever the program finds
Init ==
    /\ disk \in Disks
    /\ fs \in Trees
    /\ clip_data = <<>>
    /\ table_widget = <<>>
    /\ text_edit = <<>>
    /\ pc = "idle"
    /\ pending = <<>>
    /\ raised = "none"
    /\ running = TRUE

\* load_edl_data: one table row per tuple of clip_data, in its order
LoadEdlData(data) == [row \in 1..Len(data) |-> data[row]]

\* open_file, up to the first line of the loop of parse_edl_file: a name
\* not ending in .edl does nothing; otherwise the address bar shows it and
\* the file is opened, which raises IOError when it is not there
OpenFile(filename) ==
    /\ running /\ pc = "idle"
    /\ IF ~EndsWith(filename, EDL)
       THEN /\ raised' = "none"
            /\ UNCHANGED <<text_edit, pc, pending>>
       ELSE /\ text_edit' = filename
            /\ IF filename \in DOMAIN disk
               THEN /\ Len(clip_data) + Len(disk[filename]) <= MaxRecords
                    /\ pc' = "parsing"
                    /\ pending' = disk[filename]
                    /\ raised' = "none"
               ELSE /\ raised' = "IOError"
                    /\ UNCHANGED <<pc, pending>>
    /\ UNCHANGED <<disk, fs, clip_data, table_widget, running>>

\* one iteration of "for line in file"; an IndexError is caught nowhere:
\* it closes the file and leaves parse_edl_file and open_file
ParseLine ==
    /\ pc = "parsing" /\ pending # <<>>
    /\ LET line == Head(pending)
           outcome == LineOutcome(line)
       IN  /\ clip_data' = IF outcome = "record"
                           THEN AppendRecord(clip_data, Record(line))
                           ELSE clip_data
           /\ IF outcome = "IndexError"
              THEN /\ pc' = "idle"
                   /\ pending' = <<>>
                   /\ raised' = "IndexError"
              ELSE /\ pending' = Tail(pending)
                   /\ UNCHANGED <<pc, raised>>
    /\ UNCHANGED <<disk, fs, table_widget, text_edit, running>>

\* the end of the file: load_edl_data shows clip_data
ParseEnd ==
    /\ pc = "parsing" /\ pending = <<>>
    /\ table_widget' = LoadEdlData(clip_data)
    /\ pc' = "idle"
    /\ UNCHANGED <<disk, fs, clip_data, text_edit, pending, raised, running>>

\* generate_folders: the folders of every tuple of clip_data, up to the
\* first OSError, which is caught nowhere
GenerateFolders ==
    /\ running /\ pc = "idle"
    /\ LET r == Folders(fs, clip_data)
       IN  /\ fs' = r.tree
           /\ raised' = IF r.err THEN "OSError" ELSE "none"
    /\ UNCHANGED <<disk, clip_data, table_widget, text_edit, pc, pending, running>>

\* an exception that leaves a slot reaches the event loop of main.py,
\* which, depending on the PyQt5 release, reports it and goes on or ends
\* the process
Abort ==
    /\ running /\ pc = "idle" /\ raised # "none"
    /\ running' = FALSE
    /\ UNCHANGED <<disk, fs, clip_data, table_widget, text_edit, pc, pending, raised>>

Next ==
    \/ \E filename \in DialogChoices(disk) : OpenFile(filename)
    \/ ParseLine
    \/ ParseEnd
    \/ GenerateFolders
    \/ Abort

Spec == Init /\ [][Next]_vars

---------------------------------------------------------------------------
(* Properties *)

Last(seq) == seq[Len(seq)]

\* the loop of parse_edl_file is about to read a line
AtLine == pc = "parsing" /\ pending # <<>>

\* w occurs in line
Contains(line, w) ==
    \E i \in 1..Len(line) :
        i + Len(w) - 1 <= Len(line) /\ SubSeq(line, i, i + Len(w) - 1) = w

\* the text of name before its first underscore
FirstToken(name) ==
    LET us == {i \in 1..Len(name) : name[i] = "_"}
    IN  IF us = {} THEN name
        ELSE SubSeq(name, 1, (CHOOSE i \in us : \A j \in us : i <= j) - 1)

\* lowercase s, 2 digits, lowercase e, 2 or 3 digits, and nothing else
SeasonEpisodeShape(t) ==
    \E n \in {2, 3} :
        /\ Len(t) = 4 + n
        /\ t[1] = "s" /\ t[4] = "e"
        /\ \A i \in {2, 3} \cup (5..(4 + n)) : t[i] \in Digits

\* C1: parsing is best-effort per line: a line that yields no record (a
\* REEL line without CLIP, a .mov line without a token at index 4) adds
\* nothing, and the lines after it are all still to be read.
C1_BestEffortPerLine ==
    [][(AtLine /\ LineOutcome(Head(pending)) # "record")
        => /\ clip_data' = clip_data
           /\ pending' = Tail(pending)]_vars

\* C2: once a parse has ended, the record list holds exactly the records
\* of the file parsed last (the one the address bar names), and nothing
\* of an earlier parse.
C2_FreshListPerParse ==
    (pc = "idle" /\ text_edit \in DOMAIN disk)
        => clip_data = ParsedRecords(disk[text_edit])

\* C3: a record is appended only while the loop reads a line that, after
\* trimming, starts with REEL, contains CLIP, and whose clip name has a
\* first underscore token of the shape sNNeNN or sNNeNNN; any other line,
\* and any other step, appends nothing.
C3_RecordOnlyForQualifyingLine ==
    [][clip_data' # clip_data
        => /\ AtLine
           /\ StartsWith(Strip(Head(pending)), REEL)
           /\ Contains(Head(pending), CLIP)
           /\ SeasonEpisodeShape(FirstToken(ClipName(Head(pending))))]_vars

\* C3 witness: e.edl has been read to its end: its REEL/CLIP line with the
\* first token S01E05 gave nothing, the line after it gave its record.
C3_Witness ==
    /\ disk = FixtureDisk /\ text_edit = EEdl /\ pc = "idle"
    /\ table_widget = clip_data
    /\ clip_data = << <<<<"s", "0", "3", "e", "1", "2", "3", "_", "f", "o", "o">>, <<>>, <<"e", "1", "2", "3">>, <<"s", "0", "3">>>> >>

\* C4: within a parse the list only grows at its end, by the record of the
\* line being read, the lines are read in file order, and a line that
\* yields a record appends it even when an equal record is in the list.
C4_AppendOnlyInLineOrder ==
    [][AtLine
        => /\ \/ clip_data' = clip_data
              \/ /\ Len(clip_data') = Len(clip_data) + 1
                 /\ SubSeq(clip_data', 1, Len(clip_data)) = clip_data
                 /\ Contains(Head(pending), Last(clip_data')[1])
                 /\ pending' = Tail(pending)
           /\ LineOutcome(Head(pending)) = "record" => clip_data' # clip_data]_vars

\* C4 witness: d.edl, whose first and third lines are the same, has been
\* read to its end and gave two equal records.
C4_Witness ==
    /\ disk = FixtureDisk /\ text_edit = DEdl /\ pc = "idle"
    /\ Len(clip_data) = 2 /\ clip_data[1] = clip_data[2]
    /\ table_widget = clip_data

\* everything after the first occurrence of CLIP, trimmed
AfterFirstClip(line) == Strip(SubSeq(line, Find(line, CLIP) + Len(CLIP), Len(line)))

\* C5: the clip name of a record is everything after the first CLIP of
\* its line, trimmed, also when CLIP occurs again later on the line.
C5_ClipNameAfterFirstClip ==
    [][(AtLine /\ clip_data' # clip_data)
        => Last(clip_data')[1] = AfterFirstClip(Head(pending))]_vars

\* num with zeros in front of it up to width w; a leading sign of the
\* number stays in front of the zeros
ZeroPadded(num, w) ==
    LET sign == IF num # <<>> /\ num[1] \in {"+", "-"} THEN <<num[1]>> ELSE <<>>
        rest == SubSeq(num, Len(sign) + 1, Len(num))
        fill == IF Len(num) < w THEN [i \in 1..(w - Len(num)) |-> "0"] ELSE <<>>
    IN  sign \o fill \o rest

\* the tokens of a record's clip name
TokensOf(rec) == Split(rec[1], Underscore)

\* C6: season is the first 3 characters of the first token and the raw
\* episode the rest; an episode number of fewer than 3 digits is padded
\* with zeros to 3 digits, one of 3 digits is kept, so every record's
\* episode is e and exactly 3 digits. The first tokens read include
\* s01e05, s01e23, s02e12 (padded) and s01e005, s12e123 (kept); a raw e5
\* is no part of a token the pattern lets through, and the normalization
\* step alone gives e005 for it.
C6_EpisodeNormalized ==
    /\ \A i \in 1..Len(clip_data) :
          LET rec == clip_data[i]
              token == FirstToken(rec[1])
              number == SubSeq(token, 5, Len(token))
          IN  /\ rec[4] = SubSeq(token, 1, 3)
              /\ rec[3] = <<"e">> \o ZeroPadded(number, 3)
              /\ Len(rec[3]) = 4
              /\ \A k \in 2..4 : rec[3][k] \in Digits
    /\ NormalizeEpisode(<<"e", "5">>) = <<"e", "0", "0", "5">>

\* C6 witness: a.edl has been read: s01e005 kept its episode e005 and
\* s02e12 got e012.
C6_Witness ==
    /\ disk = FixtureDisk /\ text_edit = AEdl /\ pc = "idle"
    /\ Len(clip_data) = 2
    /\ clip_data[1][3] = <<"e", "0", "0", "5">> /\ clip_data[1][4] = <<"s", "0", "1">>
    /\ clip_data[2][3] = <<"e", "0", "1", "2">> /\ clip_data[2][4] = <<"s", "0", "2">>

\* the shot number of a .mov clip: the first "."-piece of the second
\* "-"-piece of the token at index 4
MovNumber(tokens) == Split(Split(tokens[5], Dash)[2], Dot)[1]

\* the shot number of a .wav clip: the first "-"-piece of the token at
\* index 1
WavNumber(tokens) == Split(tokens[2], Dash)[1]

\* C7: for a clip whose last token ends in .mov the shot is the episode,
\* s, and the .mov shot number padded with zeros to width 4; for one whose
\* last token ends in .wav the same with the .wav shot number.
C7_ShotExtractionRule ==
    \A i \in 1..Len(clip_data) :
        LET rec == clip_data[i]
            tokens == TokensOf(rec)
        IN  /\ EndsWith(Last(tokens), MOV)
                => rec[2] = rec[3] \o <<"s">> \o ZeroPadded(MovNumber(tokens), 4)
            /\ EndsWith(Last(tokens), WAV)
                => rec[2] = rec[3] \o <<"s">> \o ZeroPadded(WavNumber(tokens), 4)

\* C7 witness: a.edl has been read: the .mov clip got shot e005s0007 and
\* the .wav clip e012s0033.
C7_Witness ==
    /\ disk = FixtureDisk /\ text_edit = AEdl /\ pc = "idle"
    /\ clip_data =
        << <<<<"s", "0", "1", "e", "0", "0", "5", "_", "s", "h", "o", "w", "_", "e", "p", "_", "d", "e", "s", "c", "_", "u", "n", "u", "s", "e", "d", "-", "0", "0", "0", "7", ".", "m", "o", "v">>, <<"e", "0", "0", "5", "s", "0", "0", "0", "7">>, <<"e", "0", "0", "5">>, <<"s", "0", "1">>>>,
           <<<<"s", "0", "2", "e", "1", "2", "_", "0", "0", "3", "3", "-", "x", ".", "w", "a", "v">>, <<"e", "0", "1", "2", "s", "0", "0", "3", "3">>, <<"e", "0", "1", "2">>, <<"s", "0", "2">>>> >>

HasShotExtension(rec) ==
    EndsWith(Last(TokensOf(rec)), MOV) \/ EndsWith(Last(TokensOf(rec)), WAV)

\* the extracted shot number of a record with a .mov or .wav clip
NumberOf(rec) ==
    IF EndsWith(Last(TokensOf(rec)), WAV) THEN WavNumber(TokensOf(rec))
    ELSE MovNumber(TokensOf(rec))

\* what follows the episode and the s in a record's shot
ShotTail(rec) == SubSeq(rec[2], Len(rec[3]) + 2, Len(rec[2]))

BeginsEpisodeS(rec) ==
    /\ Len(rec[2]) > Len(rec[3])
    /\ SubSeq(rec[2], 1, Len(rec[3]) + 1) = rec[3] \o <<"s">>

\* C8 as stated: shot is empty when the last token ends in neither .mov
\* nor .wav, and otherwise is the record's episode, s, and exactly 4
\* digits.
C8_ShotFourDigits ==
    \A i \in 1..Len(clip_data) :
        LET rec == clip_data[i]
        IN  IF ~HasShotExtension(rec) THEN rec[2] = <<>>
            ELSE /\ BeginsEpisodeS(rec)
                 /\ Len(ShotTail(rec)) = 4
                 /\ AllDigits(ShotTail(rec))

\* C8 amended: shot is empty when the last token ends in neither .mov nor
\* .wav, and otherwise is the record's episode, s, and the extracted
\* number filled with zeros to at least 4 characters: exactly 4 digits
\* when the number has at most 4 digits, the number itself when it is
\* longer, digits or not.
C8_ShotAtLeastFourWide ==
    \A i \in 1..Len(clip_data) :
        LET rec == clip_data[i]
        IN  IF ~HasShotExtension(rec) THEN rec[2] = <<>>
            ELSE /\ BeginsEpisodeS(rec)
                 /\ Len(ShotTail(rec)) >= 4
                 /\ (AllDigits(NumberOf(rec)) /\ Len(NumberOf(rec)) <= 4)
                        => (Len(ShotTail(rec)) = 4 /\ AllDigits(ShotTail(rec)))
                 /\ Len(NumberOf(rec)) >= 4 => ShotTail(rec) = NumberOf(rec)

\* C8 witness: a .wav clip with the 5-digit shot number 12345 has been read
\* and its shot is e005s12345.
C8_Witness ==
    /\ pc = "idle" /\ Len(clip_data) = 1
    /\ clip_data[1][1] = <<"s", "0", "1", "e", "0", "5", "_", "1", "2", "3", "4", "5", "-", "x", ".", "w", "a", "v">>
    /\ clip_data[1][2] = <<"e", "0", "0", "5", "s", "1", "2", "3", "4", "5">>

\* the season, episode and shot folders of the records
FolderPaths(records) ==
    UNION { { <<records[i][4]>>,
              <<records[i][4], records[i][3]>>,
              <<records[i][4], records[i][3], records[i][2]>> } :
            i \in 1..Len(records) }

\* C9: no step removes or alters what is in the tree, and the only
\* directories a step adds are season, episode and shot folders of the
\* records; running generate_folders again on the tree it has just left
\* changes nothing and raises nothing the first run did not raise.
C9_IdempotentAndAdditive ==
    /\ [][/\ fs.dirs \subseteq fs'.dirs
          /\ fs'.files = fs.files
          /\ fs'.readonly = fs.readonly
          /\ (fs'.dirs \ fs.dirs) \subseteq FolderPaths(clip_data)]_vars
    /\ [][GenerateFolders
            => LET again == Folders(fs', clip_data')
               IN  /\ again.tree = fs'
                   /\ again.err => raised' = "OSError"]_vars

\* C9 witness: the tree held s01/e005 and a shot folder in it; after
\* generate_folders for the clip of shot e005s0007 it holds that shot
\* folder too, and the old ones still.
C9_Witness ==
    /\ pc = "idle" /\ raised = "none"
    /\ Len(clip_data) = 1 /\ clip_data[1][2] = <<"e", "0", "0", "5", "s", "0", "0", "0", "7">>
    /\ fs.dirs = SeasonTree.dirs \cup {<<S01, E005, <<"e", "0", "0", "5", "s", "0", "0", "0", "7">>>>}

\* C10: generate_folders goes through every record: when it has run, each
\* record either has its folders in the tree or is one whose own folders
\* cannot be created, whatever happened to the records before it.
C10_NoGlobalAbort ==
    [][GenerateFolders
        => \A i \in 1..Len(clip_data) :
              LET r == RecordFolders(fs', clip_data[i])
              IN  r.err \/ r.tree = fs']_vars

===========================================================================
